---- MODULE Spec2Model ----
(***************************************************************************)
(* Model of app.py: the SalesLetterGenerator helpers                       *)
(* (detect_prohibited_words, search_knowledge, generate_sales_letter) and  *)
(* the three-step wizard of main() driven by Streamlit reruns.             *)
(*                                                                         *)
(* A Python str is a sequence of one-character strings over Alphabet; the  *)
(* fixed literals of the prompt template are single marker elements.       *)
(***************************************************************************)
EXTENDS Integers, Sequences, FiniteSets, TLC

VARIABLES
    knowledge_base,     \* generator.knowledge_base['knowledge_items']
    prohibited_config,  \* generator.prohibited_config
    current_step,       \* st.session_state.current_step
    form_data,          \* st.session_state.form_data
    generated_letter,   \* st.session_state.generated_letter
    generation_time,    \* st.session_state.generation_time
    detected_words,     \* st.session_state.detected_words
    selected_knowledge, \* st.session_state.selected_knowledge
    message,            \* what the last script run displayed (st.error / traceback)
    service,            \* what the last script run did with model.generate_content
    last,               \* the button the last script run handled
    call,               \* library call under test: function and arguments
    ret                 \* its outcome

vars == <<knowledge_base, prohibited_config, current_step, form_data,
          generated_letter, generation_time, detected_words,
          selected_knowledge, message, service, last, call, ret>>

session == <<current_step, form_data, generated_letter, generation_time,
             detected_words, selected_knowledge, message, service, last>>

----------------------------------------------------------------------------
(* Bounds *)

MaxTextLen == 3     \* longest text handed to detect_prohibited_words
MaxQueryLen == 2    \* longest query handed to search_knowledge
MaxSelected == 2    \* longest selected_knowledge list handed to generate_sales_letter

----------------------------------------------------------------------------
(* Python str *)

Alphabet == {"a", "A", "b", "B"}

Strings(n) == UNION {[1..k -> Alphabet] : k \in 0..n}

LowerChar(c) == CASE c = "A" -> "a" [] c = "B" -> "b" [] OTHER -> c

UpperChar(c) == CASE c = "a" -> "A" [] c = "b" -> "B" [] OTHER -> c

\* str.lower()
lower(s) == [i \in 1..Len(s) |-> LowerChar(s[i])]

\* the first character upper-cased, every other one kept as it is
UpperFirst(s) ==
    IF s = <<>> THEN s ELSE <<UpperChar(s[1])>> \o Tail(s)

\* str.capitalize(): first character upper-cased, every other one lower-cased
capitalize(s) ==
    IF s = <<>> THEN s ELSE <<UpperChar(s[1])>> \o lower(Tail(s))

\* sub in s
Contains(sub, s) ==
    \E i \in 0..(Len(s) - Len(sub)) : SubSeq(s, i + 1, i + Len(sub)) = sub

RECURSIVE Interleave(_, _)
Interleave(s, new) ==
    IF s = <<>> THEN new ELSE new \o <<Head(s)>> \o Interleave(Tail(s), new)

RECURSIVE replace(_, _, _)
\* str.replace(old, new): leftmost, non-overlapping, every occurrence
replace(s, old, new) ==
    IF old = <<>> THEN Interleave(s, new)
    ELSE IF Len(s) < Len(old) THEN s
    ELSE IF SubSeq(s, 1, Len(old)) = old
         THEN new \o replace(SubSeq(s, Len(old) + 1, Len(s)), old, new)
         ELSE <<Head(s)>> \o replace(Tail(s), old, new)

\* dict.get(key, default)
Get(d, key, default) == IF key \in DOMAIN d THEN d[key] ELSE default

----------------------------------------------------------------------------
(* SalesLetterGenerator.detect_prohibited_words *)

\* a mutant: the search is made in the partially cleaned text
ScrubStepOnClean(acc, text, word, replacements) ==
    IF Contains(lower(word), lower(acc.clean_text))
    THEN LET replacement == Get(replacements, word, word)
             pass1 == replace(acc.clean_text, word, replacement)
             pass2 == replace(pass1, capitalize(word), capitalize(replacement))
         IN  [clean_text |-> pass2,
              detected_words |-> Append(acc.detected_words, word)]
    ELSE acc

\* a mutant: the capitalized occurrences get the replacement as configured
ScrubStepPlainReplacement(acc, text, word, replacements) ==
    IF Contains(lower(word), lower(text))
    THEN LET replacement == Get(replacements, word, word)
             pass1 == replace(acc.clean_text, word, replacement)
             pass2 == replace(pass1, capitalize(word), replacement)
         IN  [clean_text |-> pass2,
              detected_words |-> Append(acc.detected_words, word)]
    ELSE acc

\* one iteration of the loop over prohibited_words
ScrubStep(acc, text, word, replacements) ==
    IF Contains(lower(word), lower(text))
    THEN LET replacement == Get(replacements, word, word)
             pass1 == replace(acc.clean_text, word, replacement)
             pass2 == replace(pass1, capitalize(word), capitalize(replacement))
         IN  [clean_text |-> pass2,
              detected_words |-> Append(acc.detected_words, word)]
    ELSE acc

RECURSIVE ScrubLoop(_, _, _, _, _)
ScrubLoop(acc, text, words, replacements, i) ==
    IF i > Len(words) THEN acc
    ELSE ScrubLoop(ScrubStep(acc, text, words[i], replacements),
                   text, words, replacements, i + 1)

detect_prohibited_words(config, text) ==
    ScrubLoop([clean_text |-> text, detected_words |-> <<>>],
              text, config.prohibited_words, config.replacements, 1)

----------------------------------------------------------------------------
(* Optional arguments: Python None, or a value *)

NoneArg(default) == [none |-> TRUE, val |-> default]

Some(v) == [none |-> FALSE, val |-> v]

\* truth value of a str or list argument: None and the empty value are false
Truthy(x) == ~x.none /\ x.val # <<>>

\* truth value of the tags argument (a collection of tag names)
TruthyTags(x) == ~x.none /\ x.val # {}

----------------------------------------------------------------------------
(* SalesLetterGenerator.search_knowledge *)

\* a mutant: every selected tag must be on the item
AllTags(item, tags) == \A tag \in tags : tag \in item.tags

\* any(tag in item['tags'] for tag in tags)
AnyTag(item, tags) == \E tag \in tags : tag \in item.tags

\* a mutant: the query is consulted also when tags are selected
SearchStepQueryToo(acc, item, tags, query) ==
    IF acc.raised THEN acc
    ELSE IF TruthyTags(tags)
    THEN IF AnyTag(item, tags.val)
            /\ (Truthy(query) => Contains(lower(query.val), lower(item.title)))
         THEN [acc EXCEPT !.results = Append(@, item)]
         ELSE acc
    ELSE IF Truthy(query) /\ Contains(lower(query.val), lower(item.title))
    THEN [acc EXCEPT !.results = Append(@, item)]
    ELSE IF query.none
    THEN [raised |-> TRUE, results |-> <<>>]
    ELSE IF Contains(lower(query.val), lower(item.content))
    THEN [acc EXCEPT !.results = Append(@, item)]
    ELSE acc

\* one iteration of the loop over knowledge_items:
\*   if tags: ...
\*   elif query and query.lower() in title.lower() or query.lower() in content.lower(): ...
\* which Python groups as (query and (q in title)) or (q in content)
SearchStep(acc, item, tags, query) ==
    IF acc.raised THEN acc
    ELSE IF TruthyTags(tags)
    THEN IF AnyTag(item, tags.val)
         THEN [acc EXCEPT !.results = Append(@, item)]
         ELSE acc
    ELSE IF Truthy(query) /\ Contains(lower(query.val), lower(item.title))
    THEN [acc EXCEPT !.results = Append(@, item)]
    ELSE IF query.none
    THEN [raised |-> TRUE, results |-> <<>>]     \* None.lower(): AttributeError
    ELSE IF Contains(lower(query.val), lower(item.content))
    THEN [acc EXCEPT !.results = Append(@, item)]
    ELSE acc

RECURSIVE SearchLoop(_, _, _, _, _)
SearchLoop(acc, items, tags, query, i) ==
    IF i > Len(items) THEN acc
    ELSE SearchLoop(SearchStep(acc, items[i], tags, query), items, tags, query, i + 1)

search_knowledge(items, tags, query) ==
    SearchLoop([raised |-> FALSE, results |-> <<>>], items, tags, query, 1)

----------------------------------------------------------------------------
(* SalesLetterGenerator.generate_sales_letter: the prompt *)

KnowledgeHeader == "RELEVANT COPYWRITING KNOWLEDGE:"

\* next((item for item in knowledge_items if item['id'] == knowledge_id), None)
RECURSIVE FindItem(_, _, _)
FindItem(items, knowledge_id, i) ==
    IF i > Len(items) THEN [none |-> TRUE, val |-> 0]
    ELSE IF items[i].id = knowledge_id THEN [none |-> FALSE, val |-> i]
    ELSE FindItem(items, knowledge_id, i + 1)

\* a mutant of Snippet: content first
SnippetContentFirst(item) ==
    <<"<nl>">> \o item.content \o <<":<nl>">> \o item.title \o <<"<nl>">>

\* f"\n{title}:\n{content}\n"
Snippet(item) == <<"<nl>">> \o item.title \o <<":<nl>">> \o item.content \o <<"<nl>">>

RECURSIVE KnowledgeLoop(_, _, _, _)
KnowledgeLoop(context, items, selected, i) ==
    IF i > Len(selected) THEN context
    ELSE LET found == FindItem(items, selected[i], 1)
         IN  KnowledgeLoop(IF found.none THEN context
                           ELSE context \o Snippet(items[found.val]),
                           items, selected, i + 1)

\* a mutant: the header is written whether or not anything is selected
KnowledgeContextAlways(items, selected) ==
    KnowledgeLoop(<<KnowledgeHeader>>, items, selected, 1)

KnowledgeContext(items, selected) ==
    IF selected # <<>>
    THEN KnowledgeLoop(<<KnowledgeHeader>>, items, selected, 1)
    ELSE <<>>

BuildPrompt(items, product_details, audience_details, customization, selected) ==
    <<"Generate a high-converting sales letter", "PRODUCT DETAILS:", "- Name: ">>
    \o product_details.name \o <<"- Type: ">> \o product_details.type
    \o <<"- Key Features: ">> \o product_details.features
    \o <<"- Unique Value Proposition: ">> \o product_details.uvp
    \o <<"TARGET AUDIENCE:", "- Primary Audience: ">> \o audience_details.primary
    \o <<"- Pain Points: ">> \o audience_details.pain_points
    \o <<"- Desired Outcomes: ">> \o audience_details.desired_outcomes
    \o <<"CUSTOMIZATION:", "- Tone: ">> \o customization.tone
    \o <<"- Length: ">> \o customization.length
    \o <<"- Key Emphasis: ">> \o customization.emphasis
    \o KnowledgeContext(items, selected)
    \o <<"REQUIREMENTS:", "IMPORTANT: Avoid using any marketing hype",
         "Generate the sales letter:">>

\* try: return model.generate_content(prompt).text
\* except Exception as e: raise Exception(f"Generation failed: {e}")
\* The outcome of the external service is an input: a text, or a failure.
generate_sales_letter(items, product_details, audience_details, customization, selected, outcome) ==
    LET prompt == BuildPrompt(items, product_details, audience_details,
                              customization, selected)
    IN  IF outcome.none
        THEN [raised |-> TRUE, prompt |-> prompt, text |-> <<>>]
        ELSE [raised |-> FALSE, prompt |-> prompt, text |-> outcome.val]

----------------------------------------------------------------------------
(* Configuration files: knowledge_base.yaml and prohibited_words.yaml *)

Str1(c) == <<c>>

Str2(c, d) == <<c, d>>

K1 == [id |-> "k1", title |-> Str2("a", "B"), content |-> Str1("b"),
       tags |-> {"urgency", "scarcity"}]

K2 == [id |-> "k2", title |-> Str1("A"), content |-> Str2("a", "a"),
       tags |-> {"social-proof"}]

K3 == [id |-> "k3", title |-> Str1("b"), content |-> <<>>, tags |-> {}]

Catalogs == {<<>>, <<K1>>, <<K1, K2>>, <<K2, K1>>, <<K1, K2, K3>>, <<K3, K2>>}

TagNames == {"urgency", "scarcity", "social-proof"}

KnowledgeIds == {"k1", "k2", "k9"}

\* ordered term lists with the replacements mapping (terms are non-empty)
Rules(words, replacements) ==
    [prohibited_words |-> words, replacements |-> replacements]

RuleSets ==
    { Rules(<<>>, <<>>),
      Rules(<<Str2("a", "b")>>, (Str2("a", "b") :> Str1("b"))),
      Rules(<<Str2("a", "B")>>, (Str2("a", "B") :> Str2("b", "A"))),
      Rules(<<Str2("a", "b"), Str1("b")>>, (Str2("a", "b") :> Str1("a"))),
      Rules(<<Str1("a"), Str1("b")>>, (Str1("a") :> Str1("b")) @@ (Str1("b") :> Str1("a"))),
      Rules(<<Str1("b")>>, (Str1("b") :> Str2("a", "B"))) }

----------------------------------------------------------------------------
(* Session state of a fresh session (main, "Initialize session state") *)

None == <<"None">>          \* Python None where a str is expected

Unset == << <<"unset">> >>  \* session attribute not assigned yet

NoCall == [fn |-> "none"]

SessionInit ==
    /\ current_step = 0
    /\ form_data = [k \in {} |-> <<>>]
    /\ generated_letter = None
    /\ generation_time = "None"
    /\ detected_words = Unset
    /\ selected_knowledge = Unset
    /\ message = "none"
    /\ service = "idle"
    /\ last = "start"

ConfigInit ==
    /\ knowledge_base \in Catalogs
    /\ prohibited_config \in RuleSets

----------------------------------------------------------------------------
(* The helpers called directly, on arguments drawn from bounded sets.  The *)
(* helpers keep no state between calls, so a behaviour makes one call.     *)

OptTags == {NoneArg({})} \cup {Some(t) : t \in SUBSET TagNames}

OptQueries == {NoneArg(<<>>)} \cup {Some(q) : q \in Strings(MaxQueryLen)}

Selections == UNION {[1..k -> KnowledgeIds] : k \in 0..MaxSelected}

ServiceOutcomes == {NoneArg(<<>>), Some(Str2("a", "b")), Some(Str2("A", "b")), Some(Str1("B"))}

CallDetect ==
    /\ call.fn = "none"
    /\ \E text \in Strings(MaxTextLen) :
         /\ call' = [fn |-> "detect_prohibited_words", text |-> text]
         /\ ret' = detect_prohibited_words(prohibited_config, text)
    /\ UNCHANGED <<knowledge_base, prohibited_config, session>>

CallSearch ==
    /\ call.fn = "none"
    /\ \E tags \in OptTags, query \in OptQueries :
         /\ call' = [fn |-> "search_knowledge", tags |-> tags, query |-> query]
         /\ ret' = search_knowledge(knowledge_base, tags, query)
    /\ UNCHANGED <<knowledge_base, prohibited_config, session>>

CallGenerate ==
    /\ call.fn = "none"
    /\ \E selected \in Selections, outcome \in ServiceOutcomes,
          name \in {Str1("a"), <<>>} :
         LET product_details  == [name |-> name, type |-> Str1("Service"),
                                  features |-> Str1("b"), uvp |-> Str1("a")]
             audience_details == [primary |-> Str1("b"), pain_points |-> Str1("a"),
                                  desired_outcomes |-> Str1("B")]
             customization    == [tone |-> Str1("Professional"),
                                  length |-> Str1("Short (200-300 words)"),
                                  emphasis |-> Str1("Urgency")]
         IN  /\ call' = [fn |-> "generate_sales_letter", selected |-> selected,
                         outcome |-> outcome]
             /\ ret' = generate_sales_letter(knowledge_base, product_details,
                           audience_details, customization, selected, outcome)
    /\ UNCHANGED <<knowledge_base, prohibited_config, session>>

LibInit == ConfigInit /\ SessionInit /\ call = NoCall /\ ret = NoCall

LibNext == CallDetect \/ CallSearch \/ CallGenerate

LibSpec == LibInit /\ [][LibNext]_vars

----------------------------------------------------------------------------
(* Properties of detect_prohibited_words *)

IsDetect == call.fn = "detect_prohibited_words"

\* word.lower() in text.lower()
OccursIn(word, text) == Contains(lower(word), lower(text))

\* the rule terms found in the text, in rule-list order
FoundTerms(words, text) ==
    LET Found(w) == OccursIn(w, text) IN SelectSeq(words, Found)

\* C6: the detected list is, in rule-list order, exactly the rule terms that
\* occur case-insensitively in the original input text, one entry per rule
\* however often the term occurs; with no term found the list is empty and
\* the text comes back unchanged.
DetectedListIsTermsOfOriginal ==
    IsDetect =>
        LET found == FoundTerms(prohibited_config.prohibited_words, call.text)
        IN  /\ ret.detected_words = found
            /\ \A i, j \in 1..Len(ret.detected_words) :
                   (i # j /\ ret.detected_words[i] = ret.detected_words[j])
                       => \E k, l \in 1..Len(prohibited_config.prohibited_words) :
                              /\ k # l
                              /\ prohibited_config.prohibited_words[k] = ret.detected_words[i]
                              /\ prohibited_config.prohibited_words[l] = ret.detected_words[i]
            /\ (found = <<>> => ret.clean_text = call.text)

\* a term found in the original text but no longer in the cleaned text of the
\* rules before it, and a term that occurs twice
DetectedWitness ==
    /\ IsDetect
    /\ Len(ret.detected_words) = 2
    /\ ret.clean_text # call.text
    /\ ~OccursIn(ret.detected_words[2],
                 replace(call.text, ret.detected_words[1],
                         Get(prohibited_config.replacements,
                             ret.detected_words[1], ret.detected_words[1])))

DetectedNothingWitness ==
    /\ IsDetect
    /\ prohibited_config.prohibited_words # <<>>
    /\ call.text # <<>>
    /\ ret.detected_words = <<>>

\* the two passes of one rule, with the casing variant given by python
TwoPasses(s, word, replacement, python) ==
    IF python
    THEN replace(replace(s, word, replacement),
                 capitalize(word), capitalize(replacement))
    ELSE replace(replace(s, word, replacement),
                 UpperFirst(word), UpperFirst(replacement))

RECURSIVE PassesOver(_, _, _, _)
\* the passes of the detected terms, one rule after the other
PassesOver(s, terms, replacements, python) ==
    IF terms = <<>> THEN s
    ELSE PassesOver(TwoPasses(s, Head(terms),
                              Get(replacements, Head(terms), Head(terms)), python),
                    Tail(terms), replacements, python)

\* no detected term occurs in the text in its exact case or in its variant
OnlyOtherCasings(text, terms, python) ==
    \A i \in 1..Len(terms) :
        /\ ~Contains(terms[i], text)
        /\ ~Contains(IF python THEN capitalize(terms[i]) ELSE UpperFirst(terms[i]), text)

\* C5 as stated: the second pass replaces the term with only its first
\* character upper-cased by the replacement with only its first character
\* upper-cased, and every other casing is left alone.
ReplacesFirstUpperVariant ==
    IsDetect =>
        LET found == FoundTerms(prohibited_config.prohibited_words, call.text)
        IN  /\ ret.clean_text =
                   PassesOver(call.text, found, prohibited_config.replacements, FALSE)
            /\ (OnlyOtherCasings(call.text, found, FALSE) => ret.clean_text = call.text)

\* C5 amended: for every detected rule, in rule order, every occurrence of the
\* exact-case term is replaced by the replacement, then every occurrence of
\* term.capitalize() (first character upper-cased, the others lower-cased) by
\* replacement.capitalize(); a text that holds the detected terms only in
\* other casings comes back unchanged.
ReplacesCapitalizedVariant ==
    IsDetect =>
        LET found == FoundTerms(prohibited_config.prohibited_words, call.text)
        IN  /\ ret.clean_text =
                   PassesOver(call.text, found, prohibited_config.replacements, TRUE)
            /\ (OnlyOtherCasings(call.text, found, TRUE) => ret.clean_text = call.text)

\* a text with the term in exact case, capitalized and in all-caps
ReplacesWitness ==
    /\ IsDetect
    /\ Len(ret.detected_words) = 1
    /\ LET word == ret.detected_words[1]
           replacement == Get(prohibited_config.replacements, word, word)
       IN  /\ word # capitalize(word)
           /\ replacement # capitalize(replacement)
           /\ Contains(capitalize(word), call.text)
           /\ Contains(capitalize(replacement), ret.clean_text)
           /\ ~Contains(capitalize(word), ret.clean_text)

OtherCasingWitness ==
    /\ IsDetect
    /\ ret.detected_words # <<>>
    /\ call.text # <<>>
    /\ OnlyOtherCasings(call.text, ret.detected_words, TRUE)
    /\ ret.clean_text = call.text

----------------------------------------------------------------------------
(* Properties of search_knowledge *)

IsSearch == call.fn = "search_knowledge"

\* the items sharing at least one tag with the set, in catalog order
SharingATag(items, tags) ==
    LET Shares(item) == item.tags \cap tags # {} IN SelectSeq(items, Shares)

\* the items whose title or content contains the query, case-insensitively
MatchingQuery(items, q) ==
    LET Matches(item) == \/ Contains(lower(q), lower(item.title))
                         \/ Contains(lower(q), lower(item.content))
    IN  SelectSeq(items, Matches)

\* C3: with an empty tag set and no query the result is the empty list,
\* never the catalog and never an error.
EmptyTagsGiveEmptyList ==
    (IsSearch /\ ~call.tags.none /\ call.tags.val = {} /\ call.query.none)
        => (~ret.raised /\ ret.results = <<>>)

\* C4: with no tags, an empty query string gives the empty list and a
\* non-empty query gives exactly the items whose title or content contains it.
QueryFilterWithoutTags ==
    (IsSearch /\ ~TruthyTags(call.tags) /\ ~call.query.none)
        => /\ ~ret.raised
           /\ call.query.val = <<>> => ret.results = <<>>
           /\ call.query.val # <<>>
                  => ret.results = MatchingQuery(knowledge_base, call.query.val)

\* C8: with a non-empty tag set the result is the catalog-order subsequence
\* of the items sharing a tag with the set, whatever the query argument is.
TagsTakePriority ==
    (IsSearch /\ TruthyTags(call.tags))
        => /\ ~ret.raised
           /\ ret.results = SharingATag(knowledge_base, call.tags.val)
           /\ \A query \in OptQueries :
                  search_knowledge(knowledge_base, call.tags, query) = ret

\* two tags selected, a proper part of the catalog returned, one of its items
\* carrying only one of the two tags, and a
\* query that on its own would select other items
TagsWitness ==
    /\ IsSearch
    /\ TruthyTags(call.tags)
    /\ Cardinality(call.tags.val) = 2
    /\ Len(ret.results) = 2
    /\ Len(knowledge_base) = 3
    /\ \E i \in 1..Len(ret.results) : ret.results[i].tags \cap call.tags.val # ret.results[i].tags
    /\ Truthy(call.query)
    /\ MatchingQuery(knowledge_base, call.query.val) # ret.results
    /\ MatchingQuery(knowledge_base, call.query.val) # <<>>

----------------------------------------------------------------------------
(* Properties of the prompt of generate_sales_letter *)

IsGenerate == call.fn = "generate_sales_letter"

Positions(p, e) == {i \in 1..Len(p) : p[i] = e}

\* the selected ids that the catalog knows, in selection order
KnownSelected(items, selected) ==
    LET Known(id) == \E i \in 1..Len(items) : items[i].id = id
    IN  SelectSeq(selected, Known)

ItemOf(items, id) == items[CHOOSE i \in 1..Len(items) : items[i].id = id]

RECURSIVE TitlesAndContents(_, _)
TitlesAndContents(items, ids) ==
    IF ids = <<>> THEN <<>>
    ELSE LET item == ItemOf(items, Head(ids))
         IN  <<"<nl>">> \o item.title \o <<":<nl>">> \o item.content \o <<"<nl>">>
             \o TitlesAndContents(items, Tail(ids))

\* C7: the prompt holds the reference-knowledge header only if something is
\* selected, and then the selected snippets follow it in selection order,
\* each title immediately followed by its content.
KnowledgeSectionOnlyWhenSelected ==
    IsGenerate =>
        LET p == ret.prompt
            h == Positions(p, KnowledgeHeader)
            r == Positions(p, "REQUIREMENTS:")
        IN  /\ h # {} => call.selected # <<>>
            /\ call.selected # <<>> =>
                   /\ Cardinality(h) = 1
                   /\ Cardinality(r) = 1
                   /\ \A i \in h, j \in r :
                        /\ i < j
                        /\ SubSeq(p, i + 1, j - 1) =
                             TitlesAndContents(knowledge_base,
                                 KnownSelected(knowledge_base, call.selected))

\* two known snippets selected against their catalog order
KnowledgeSectionWitness ==
    /\ IsGenerate
    /\ call.selected = <<"k2", "k1">>
    /\ Len(knowledge_base) >= 2
    /\ knowledge_base[1].id = "k1"
    /\ Positions(ret.prompt, KnowledgeHeader) # {}

NoKnowledgeSectionWitness ==
    /\ IsGenerate
    /\ call.selected = <<>>
    /\ Positions(ret.prompt, KnowledgeHeader) = {}
    /\ Positions(ret.prompt, "REQUIREMENTS:") # {}

----------------------------------------------------------------------------
(* main(): one action per button; an action is the whole script run the    *)
(* button triggers, the rerun after st.rerun() included.                   *)

\* generator.config['ui']['steps']: the three configured step labels
steps == <<"Product Details", "Target Audience", "Customization & Generation">>

TextInputs == {<<>>, Str1("a")}

\* the option lists of the selectboxes, cut to their first entries
ProductTypes == {Str1("Digital Product"), Str1("Physical Product")}

\* generator.config['generation']['available_tones']
Tones == {Str1("Professional"), Str1("Friendly")}

Lengths == {Str1("Short (200-300 words)")}

Emphases == {Str1("Problem-Solution")}

\* the selectboxes of step 3 as first rendered (index 0)
StyleDefaults == [tone |-> Str1("Professional"),
                  length |-> Str1("Short (200-300 words)"),
                  emphasis |-> Str1("Problem-Solution")]

\* dict.update
Update(d, upd) ==
    [k \in DOMAIN d \cup DOMAIN upd |-> IF k \in DOMAIN upd THEN upd[k] ELSE d[k]]

\* a mutant of AllFilled: the check is skipped
AllFilledSkipped(values) == TRUE

\* all([...]) over the text inputs of a step
AllFilled(values) == \A i \in 1..Len(values) : values[i] # <<>>

\* the step-2 form as first rendered: search_knowledge(tags=selected_tags)
\* with nothing selected in the multiselect
TagSearchRaises ==
    search_knowledge(knowledge_base, Some({}), NoneArg(<<>>)).raised

\* what a script run at this step does to form_data before any button
\* handler of the form: step 3 writes the style selectboxes into it
RenderFormData(step, fd, style) == IF step = 2 THEN Update(fd, style) ELSE fd

\* what a script run at this step displays when no handler displays anything
RenderMessage(step) ==
    IF step = 1 /\ TagSearchRaises THEN "AttributeError" ELSE "none"

\* a mutant of PreviousAvailable
PreviousAlways == TRUE

\* if st.session_state.current_step > 0: the Previous button is drawn
PreviousAvailable == current_step > 0

\* a mutant of NextAvailable
NextAlways == TRUE

\* if st.session_state.current_step < len(steps) - 1: the Next button is drawn
NextAvailable == current_step < Len(steps) - 1

Previous ==
    /\ PreviousAvailable
    /\ current_step' = current_step - 1
    /\ form_data' = RenderFormData(current_step', form_data, StyleDefaults)
    /\ message' = RenderMessage(current_step')
    /\ service' = "idle"
    /\ last' = "Previous"
    /\ UNCHANGED <<generated_letter, generation_time, detected_words,
                   selected_knowledge, knowledge_base, prohibited_config, call, ret>>

NextStep ==
    /\ NextAvailable
    /\ current_step' = current_step + 1
    /\ form_data' = RenderFormData(current_step', form_data, StyleDefaults)
    /\ message' = RenderMessage(current_step')
    /\ service' = "idle"
    /\ last' = "Next"
    /\ UNCHANGED <<generated_letter, generation_time, detected_words,
                   selected_knowledge, knowledge_base, prohibited_config, call, ret>>

\* Step 1 form, "Save & Continue"
SaveProduct ==
    /\ current_step = 0
    /\ \E product_name \in TextInputs, product_type \in ProductTypes,
          key_features \in TextInputs, uvp \in TextInputs :
         IF AllFilled(<<product_name, key_features, uvp>>)
         THEN /\ form_data' = Update(form_data,
                     [product_name |-> product_name, product_type |-> product_type,
                      key_features |-> key_features, uvp |-> uvp])
              /\ current_step' = 1
              /\ message' = RenderMessage(1)
         ELSE /\ message' = "required"
              /\ UNCHANGED <<form_data, current_step>>
    /\ service' = "idle"
    /\ last' = "Save & Continue"
    /\ UNCHANGED <<generated_letter, generation_time, detected_words,
                   selected_knowledge, knowledge_base, prohibited_config, call, ret>>

\* set(tag for item in knowledge_items for tag in item['tags'])
AvailableTags ==
    UNION {knowledge_base[i].tags : i \in 1..Len(knowledge_base)}

\* the ids of the results whose checkbox is ticked, in result order
Ticked(results, ticked) ==
    LET ids == [i \in 1..Len(results) |-> results[i].id]
        IsTicked(id) == id \in ticked
    IN  SelectSeq(ids, IsTicked)

\* Step 2 form, "Save & Continue".  The submit button is the last element of
\* the form: it is there only if the run that drew the form got past
\* search_knowledge.
SaveAudience ==
    /\ current_step = 1
    /\ ~TagSearchRaises
    /\ \E primary_audience \in TextInputs, pain_points \in TextInputs,
          desired_outcomes \in TextInputs, selected_tags \in SUBSET AvailableTags :
         LET found == search_knowledge(knowledge_base, Some(selected_tags),
                                       NoneArg(<<>>))
         IN  IF found.raised
             THEN /\ message' = "AttributeError"
                  /\ UNCHANGED <<form_data, current_step>>
             ELSE \E ticked \in SUBSET {found.results[i].id : i \in 1..Len(found.results)} :
                  IF AllFilled(<<primary_audience, pain_points, desired_outcomes>>)
                  THEN /\ form_data' = RenderFormData(2,
                              Update(form_data,
                                 [primary_audience |-> primary_audience,
                                  pain_points |-> pain_points,
                                  desired_outcomes |-> desired_outcomes,
                                  selected_knowledge |-> Ticked(found.results, ticked)]),
                              StyleDefaults)
                       /\ current_step' = 2
                       /\ message' = "none"
                  ELSE /\ message' = "required"
                       /\ UNCHANGED <<form_data, current_step>>
    /\ service' = "idle"
    /\ last' = "Save & Continue"
    /\ UNCHANGED <<generated_letter, generation_time, detected_words,
                   selected_knowledge, knowledge_base, prohibited_config, call, ret>>

\* the keys the try block reads with form_data[...]
ReadKeys == {"product_name", "product_type", "key_features", "uvp",
             "primary_audience", "pain_points", "desired_outcomes",
             "tone", "length", "emphasis"}

Stored(letter, time, detected, selected, msg, svc) ==
    [generated_letter |-> letter, generation_time |-> time,
     detected_words |-> detected, selected_knowledge |-> selected,
     message |-> msg, service |-> svc]

\* a mutant of Attempt: the previous result is cleared before the attempt
AttemptClearingFirst(fd, outcome, elapsed) ==
    IF ~(ReadKeys \subseteq DOMAIN fd)
    THEN Stored(None, "None", detected_words, selected_knowledge,
                "generation", "idle")
    ELSE LET selected == Get(fd, "selected_knowledge", <<>>)
             sales_letter == generate_sales_letter(knowledge_base,
                 [name |-> fd["product_name"], type |-> fd["product_type"],
                  features |-> fd["key_features"], uvp |-> fd["uvp"]],
                 [primary |-> fd["primary_audience"],
                  pain_points |-> fd["pain_points"],
                  desired_outcomes |-> fd["desired_outcomes"]],
                 [tone |-> fd["tone"], length |-> fd["length"],
                  emphasis |-> fd["emphasis"]],
                 selected, outcome)
         IN  IF sales_letter.raised
             THEN Stored(None, "None", detected_words, selected_knowledge,
                         "generation", "raised")
             ELSE LET scrubbed == detect_prohibited_words(prohibited_config,
                                                          sales_letter.text)
                  IN  Stored(scrubbed.clean_text, elapsed, scrubbed.detected_words,
                             selected, "none", "returned")

\* the try block of the Generate handler: the session values after it
Attempt(fd, outcome, elapsed) ==
    IF ~(ReadKeys \subseteq DOMAIN fd)
    THEN \* KeyError, caught: st.error
         Stored(generated_letter, generation_time, detected_words,
                selected_knowledge, "generation", "idle")
    ELSE LET selected == Get(fd, "selected_knowledge", <<>>)
             sales_letter == generate_sales_letter(knowledge_base,
                 [name |-> fd["product_name"], type |-> fd["product_type"],
                  features |-> fd["key_features"], uvp |-> fd["uvp"]],
                 [primary |-> fd["primary_audience"],
                  pain_points |-> fd["pain_points"],
                  desired_outcomes |-> fd["desired_outcomes"]],
                 [tone |-> fd["tone"], length |-> fd["length"],
                  emphasis |-> fd["emphasis"]],
                 selected, outcome)
         IN  IF sales_letter.raised
             THEN \* Exception("Generation failed: ..."), caught: st.error
                  Stored(generated_letter, generation_time, detected_words,
                         selected_knowledge, "generation", "raised")
             ELSE LET scrubbed == detect_prohibited_words(prohibited_config,
                                                          sales_letter.text)
                  IN  Stored(scrubbed.clean_text, elapsed, scrubbed.detected_words,
                             selected, "none", "returned")

\* Step 3 form, "Generate Sales Letter"
Generate ==
    /\ current_step = 2
    /\ \E tone \in Tones, length \in Lengths, emphasis \in Emphases,
          outcome \in ServiceOutcomes, elapsed \in {"fast", "slow"} :
         LET fd == RenderFormData(2, form_data,
                       [tone |-> tone, length |-> length, emphasis |-> emphasis])
             after == Attempt(fd, outcome, elapsed)
         IN  /\ form_data' = fd
             /\ generated_letter' = after.generated_letter
             /\ generation_time' = after.generation_time
             /\ detected_words' = after.detected_words
             /\ selected_knowledge' = after.selected_knowledge
             /\ message' = after.message
             /\ service' = after.service
    /\ last' = "Generate"
    /\ UNCHANGED <<current_step, knowledge_base, prohibited_config, call, ret>>

Init == ConfigInit /\ SessionInit /\ call = NoCall /\ ret = NoCall

Next == Previous \/ NextStep \/ SaveProduct \/ SaveAudience \/ Generate

Spec == Init /\ [][Next]_vars

----------------------------------------------------------------------------
(* Properties of the wizard *)

\* the required text fields of the step with index k (the selectboxes of a
\* step always hold a value)
RequiredOf(k) ==
    CASE k = 0 -> {"product_name", "key_features", "uvp"}
      [] k = 1 -> {"primary_audience", "pain_points", "desired_outcomes"}
      [] OTHER -> {}

Filled(fd, keys) == \A k \in keys : k \in DOMAIN fd /\ fd[k] # <<>>

RequiredText == RequiredOf(0) \cup RequiredOf(1)

Result == <<generated_letter, generation_time, detected_words, selected_knowledge>>

\* C1: the step index moves from k to k+1 only when every required field of
\* step k is non-empty; with one missing it stays at k.
AdvanceOnlyWhenFilled ==
    [][current_step' = current_step + 1
           => Filled(form_data', RequiredOf(current_step))]_vars

\* C2: a generation attempt that fails leaves the stored result of the
\* previous successful attempt exactly as it was and ends in a displayed
\* error.
FailedAttemptKeepsResult ==
    [][(last' = "Generate"
          /\ (service' = "raised" \/ ~(ReadKeys \subseteq DOMAIN form_data')))
           => (message' = "generation" /\ UNCHANGED Result)]_vars

\* a failed attempt after a successful one
FailedAttemptWitness ==
    /\ last = "Generate"
    /\ service = "raised"
    /\ message = "generation"
    /\ generated_letter # None
    /\ detected_words # <<>>
    /\ detected_words # Unset

\* C9: the service is called only when form_data holds a non-empty value for
\* every required text field; a Generate with fields missing ends in the
\* displayed failure without a call.
ServiceCalledOnlyWithAllFields ==
    /\ service # "idle" => Filled(form_data, RequiredText)
    /\ (last = "Generate" /\ ~Filled(form_data, RequiredText))
           => (message = "generation" /\ service = "idle")

\* the generate step reached with Next over a step never saved, then Generate
MissingFieldsWitness ==
    /\ last = "Generate"
    /\ Filled(form_data, RequiredOf(0))
    /\ ~Filled(form_data, RequiredOf(1))
    /\ message = "generation"
    /\ service = "idle"

ServiceCalledWitness ==
    /\ last = "Generate"
    /\ service = "returned"
    /\ Filled(form_data, RequiredText)

\* C10: the step index is always 0, 1 or 2; Previous is not available at
\* step 0, Next is not available at the last step, and an action changes the
\* index by at most one.
StepIndexInRange ==
    /\ current_step \in 0..2
    /\ [][/\ current_step' \in 0..2
          /\ current_step' - current_step \in {-1, 0, 1}
          /\ last' = "Previous" => (current_step > 0 /\ current_step' = current_step - 1)
          /\ last' = "Next" => (current_step < 2 /\ current_step' = current_step + 1)]_vars
    /\ [](current_step = 0 => ~ENABLED Previous)
    /\ [](current_step = 2 => ~ENABLED NextStep)

\* the last step reached and left again with Previous
StepIndexWitness ==
    /\ current_step = 1
    /\ last = "Previous"
    /\ "tone" \in DOMAIN form_data

====
